---- MODULE Spec2Model ----
(***************************************************************************)
(* The Monopoly service (src/src/monopolyService.ts): an HTTP API over the *)
(* tables Player, Game and PlayerGame.  Every handler issues one SQL       *)
(* statement on the root connection `db`, except deletePlayer and          *)
(* deleteGame, which run two statements on the transaction `t` of db.tx.   *)
(*                                                                         *)
(* The store is modelled as the three committed tables plus, for each      *)
(* transaction in flight, the rows it has deleted and not yet committed.   *)
(* A statement sees the committed rows minus the rows its own transaction  *)
(* deleted, and waits (its action is disabled) while a row it must change  *)
(* is held by another transaction: the store's default isolation.  No      *)
(* foreign key is assumed: what the service itself guarantees is checked.  *)
(***************************************************************************)
EXTENDS Integers, Sequences, FiniteSets, Bags, TLC

\* ------------------------------------------------------------- bounds
MaxId == 3
MaxTx == 2

\* --------------------------------------------------- program constants
HttpOk == 200
HttpNotFound == 404
HttpError == 500

InitIds == 1..(MaxId - 1)
PlayerIds == 1..MaxId
GameIds == {1, 2}
Seeded == [name |-> "A", email |-> "a@x.com"]
Inputs == { [name |-> "B", email |-> "b@x.com"] }
Errors == {"connection", "constraint"}

VARIABLES Player, Game, PlayerGame, nextId, tx, last, okDel, dirty, phantom

vars == <<Player, Game, PlayerGame, nextId, tx, last, okDel, dirty, phantom>>
ghost == <<okDel, dirty, phantom>>
store == <<Player, Game, PlayerGame>>

\* ---------------------------------------------------------- responses
Null == [kind |-> "null"]
Empty == [kind |-> "empty"]
NoRows == [pg |-> {}, player |-> {}, game |-> {}]
Resolved(v) == [rejected |-> FALSE, value |-> v]
Rejected(e) == [rejected |-> TRUE, value |-> e]

returnDataAlways(data) == [status |-> HttpOk, body |-> data]
returnDataOr404(data) ==
    IF data = Null THEN [status |-> HttpNotFound, body |-> Empty]
                   ELSE [status |-> HttpOk, body |-> data]

send(data) == [status |-> HttpOk, body |-> data]

errorHandlerLeaky(err) == [status |-> HttpError, body |-> [error |-> err]]
errorHandler(err) ==
    [status |-> HttpError, body |-> [error |-> "An internal server error occurred"]]

\* .then(data => returnDataOr404(response, data)).catch(error => next(error))
ThenOr404(p) == IF p.rejected THEN errorHandler(p.value) ELSE returnDataOr404(p.value)
\* .then(data => response.send(data)).catch(error => next(error))
ThenSend(p) == IF p.rejected THEN errorHandler(p.value) ELSE send(p.value)

None == [op |-> "none"]

\* What a handler answered: the request, the response, and (ghost) whether its
\* statement rejected, which statement of a transaction that was (1, 2; 0: none)
\* and the rows the request removed from the committed tables.
Response(op, id, input, p, r, at, removed) ==
    [op |-> op, id |-> id, input |-> input, failed |-> p.rejected, at |-> at,
     status |-> r.status, body |-> r.body, removed |-> removed]

Outcomes(v) == {Resolved(v)} \cup {Rejected(e) : e \in Errors}

\* ------------------------------------------------------------ the store
Plus(a, b) ==
    [pg |-> a.pg \cup b.pg, player |-> a.player \cup b.player, game |-> a.game \cup b.game]

\* The root connection db, and a transaction t as db.tx hands it to its callback.
Db == [pc |-> "root", pend |-> NoRows]
NewTx(op, id) ==
    [pc |-> "s1", op |-> op, id |-> id, pend |-> NoRows, data |-> Null, removed |-> NoRows]

Others(c) == BagToSet(tx (-) SetToBag({c}))

\* Rows deleted and not yet committed by the transactions other than c.
Held(c) ==
    [pg |-> UNION {t.pend.pg : t \in Others(c)},
     player |-> UNION {t.pend.player : t \in Others(c)},
     game |-> UNION {t.pend.game : t \in Others(c)}]

\* Rows a statement run on connection c sees: the committed rows, less the
\* rows c itself deleted.
Visible(c) ==
    [pg |-> PlayerGame \ c.pend.pg,
     player |-> Player \ c.pend.player,
     game |-> Game \ c.pend.game]

\* DELETE FROM PlayerGame WHERE playerID=${id}  /  WHERE gameID=${id}
ChildRowsByGame(c, op, id) ==
    [NoRows EXCEPT !.pg = {row \in Visible(c).pg : row.gameID = id}]
ChildRowsByPlayer(c, op, id) ==
    [NoRows EXCEPT !.pg = {row \in Visible(c).pg : row.playerID = id}]
ChildRows(c, op, id) ==
    [NoRows EXCEPT !.pg = {row \in Visible(c).pg :
        IF op = "deletePlayer" THEN row.playerID = id ELSE row.gameID = id}]

\* DELETE FROM Player WHERE id=${id}  /  DELETE FROM Game WHERE id=${id}
ParentRows(c, op, id) ==
    IF op = "deletePlayer"
    THEN [NoRows EXCEPT !.player = {row \in Visible(c).player : row.id = id}]
    ELSE [NoRows EXCEPT !.game = {row \in Visible(c).game : row.id = id}]

\* ... RETURNING id, read with oneOrNone; t.none resolves with null.
Returning(rows) ==
    IF rows.player \cup rows.game = {} THEN Null
    ELSE [id |-> (CHOOSE row \in rows.player \cup rows.game : TRUE).id]

\* A statement waits while a row it must change is held by another transaction.
Blocked(c, rows) ==
    \/ rows.pg \cap Held(c).pg # {}
    \/ rows.player \cap Held(c).player # {}
    \/ rows.game \cap Held(c).game # {}

\* The two statements of the transaction callback, in the order they are issued.
StmtOrderParentFirst == <<"parent", "children">>
StmtOrder == <<"children", "parent">>

\* The connection each statement of the callback is issued on: t, the transaction.
StmtCtxRoot(t, i) == IF i = 1 THEN Db ELSE t
StmtCtxAllRoot(t, i) == Db
StmtCtx(t, i) == t

\* SELECT * FROM Player WHERE id=${id}, read with oneOrNone
SelectFrom(T, id) ==
    IF \E row \in T : row.id = id
    THEN CHOOSE row \in T : row.id = id
    ELSE Null
SelectPlayer(id) == SelectFrom(Player, id)

\* UPDATE Player SET email=${body.email}, name=${body.name} WHERE id=${params.id}
UpdatedRowSwapped(row, input) == [id |-> row.id, name |-> input.email, email |-> input.name]
UpdatedRow(row, input) == [id |-> row.id, name |-> input.name, email |-> input.email]

\* INSERT INTO Player(email, name) VALUES (${email}, ${name}) RETURNING id
InsertedRowNoEmail(id, input) == [id |-> id, name |-> input.name, email |-> input.name]
InsertedRow(id, input) == [id |-> id, name |-> input.name, email |-> input.email]

\* The identifier the store's sequence assigns to the next inserted Player.
NewId == nextId

\* ORDER BY id: the sequences listing S once each, in ascending id.
RECURSIVE OrderById(_)
OrderById(S) ==
    IF S = {} THEN {<<>>}
    ELSE UNION { {<<m>> \o t : t \in OrderById(S \ {m})} :
                 m \in {x \in S : \A y \in S : x.id <= y.id} }

\* SELECT Player.id, Player.name, Player.email, PlayerGame.score FROM PlayerGame
\* JOIN Player ON Player.id = PlayerGame.playerID WHERE PlayerGame.gameID = $1
JoinNoFilter(gid) ==
    {[id |-> p.id, name |-> p.name, email |-> p.email, score |-> pg.score] :
        <<pg, p>> \in {x \in PlayerGame \X Player : x[2].id = x[1].playerID}}
Join(gid) ==
    {[id |-> p.id, name |-> p.name, email |-> p.email, score |-> pg.score] :
        <<pg, p>> \in {x \in PlayerGame \X Player :
                         x[1].gameID = gid /\ x[2].id = x[1].playerID}}

\* ghost: the rows a read on the root connection found missing while the
\* transaction that removed them had not committed.
Uncommitted ==
    [pg |-> UNION {t.removed.pg : t \in BagToSet(tx)},
     player |-> UNION {t.removed.player : t \in BagToSet(tx)},
     game |-> UNION {t.removed.game : t \in BagToSet(tx)}]

Observed(op, id) ==
    IF op = "readPlayer"
    THEN [NoRows EXCEPT !.player = {row \in Uncommitted.player : row.id = id}]
    ELSE [NoRows EXCEPT !.pg = {row \in Uncommitted.pg : row.gameID = id}]

\* ------------------------------------------------------------- initial
ScoreOf(p, g) == 10 * p + g

\* The initial stores: every player took part in every game, or all but one did.
InitRows(P, G) ==
    {[playerID |-> p, gameID |-> g, score |-> ScoreOf(p, g)] : p \in P, g \in G}

Init ==
    /\ Player = {InsertedRow(i, Seeded) : i \in InitIds}
    /\ Game = {[id |-> g] : g \in GameIds}
    /\ \E P \in {{}, {1}} : PlayerGame = InitRows(InitIds, GameIds) \ InitRows(P, {1})
    /\ nextId = MaxId
    /\ tx = EmptyBag
    /\ last = None
    /\ okDel = [k \in {"deletePlayer", "deleteGame"} |-> [i \in PlayerIds \cup GameIds |-> 0]]
    /\ dirty = NoRows
    /\ phantom = FALSE

\* ------------------------------------------------- single statements
readPlayers ==
    /\ last = None
    /\ \E p \in Outcomes([rows |-> Player]) :
        last' = Response("readPlayers", 0, Null, p, ThenSend(p), 0, NoRows)
    /\ UNCHANGED <<store, nextId, tx, ghost>>

readPlayer(id) ==
    /\ last = None
    /\ \E p \in Outcomes(SelectPlayer(id)) :
        /\ last' = Response("readPlayer", id, Null, p, ThenOr404(p), 0, NoRows)
        /\ dirty' = IF p.rejected THEN dirty ELSE Plus(dirty, Observed("readPlayer", id))
    /\ UNCHANGED <<store, nextId, tx, okDel, phantom>>

updatePlayer(id, input) ==
    LET rows == {row \in Player : row.id = id}
        data == IF rows = {} THEN Null ELSE [id |-> id]
    IN  /\ last = None
        /\ ~Blocked(Db, [NoRows EXCEPT !.player = rows])
        /\ \E p \in Outcomes(data) :
            /\ Player' = IF p.rejected THEN Player
                         ELSE (Player \ rows) \cup {UpdatedRow(row, input) : row \in rows}
            /\ last' = Response("updatePlayer", id, input, p, ThenOr404(p), 0, NoRows)
        /\ UNCHANGED <<Game, PlayerGame, nextId, tx, ghost>>

createPlayer(input) ==
    /\ last = None
    /\ nextId <= MaxId
    /\ \E p \in Outcomes([id |-> NewId]) :
        /\ Player' = IF p.rejected THEN Player ELSE Player \cup {InsertedRow(NewId, input)}
        /\ nextId' = IF p.rejected THEN nextId ELSE nextId + 1
        /\ last' = Response("createPlayer", 0, input, p, ThenSend(p), 0, NoRows)
    /\ UNCHANGED <<Game, PlayerGame, tx, ghost>>

readGames ==
    /\ last = None
    /\ \E rows \in OrderById(Game) : \E p \in Outcomes([rows |-> rows]) :
        last' = Response("readGames", 0, Null, p, ThenSend(p), 0, NoRows)
    /\ UNCHANGED <<store, nextId, tx, ghost>>

readGamePlayers(gid) ==
    /\ last = None
    /\ \E rows \in OrderById(Join(gid)) : \E p \in Outcomes([rows |-> rows]) :
        /\ last' = Response("readGamePlayers", gid, Null, p, ThenSend(p), 0, NoRows)
        /\ dirty' = IF p.rejected THEN dirty
                    ELSE Plus(dirty, Observed("readGamePlayers", gid))
    /\ UNCHANGED <<store, nextId, tx, okDel, phantom>>

\* ------------------------------------------- the transactional deletes
\* Statement i of the callback of transaction t resolves.
Resolve(t, i) ==
    LET c == StmtCtx(t, i)
        rows == IF StmtOrder[i] = "children" THEN ChildRows(c, t.op, t.id)
                ELSE ParentRows(c, t.op, t.id)
        t2 == [t EXCEPT !.pc = IF i = 1 THEN "s2" ELSE "commit",
                        !.pend = IF c = Db THEN @ ELSE Plus(@, rows),
                        !.removed = IF c = Db THEN Plus(@, rows) ELSE @,
                        !.data = Returning(rows)]
    IN  /\ ~Blocked(c, rows)
        /\ Player' = IF c = Db THEN Player \ rows.player ELSE Player
        /\ Game' = IF c = Db THEN Game \ rows.game ELSE Game
        /\ PlayerGame' = IF c = Db THEN PlayerGame \ rows.pg ELSE PlayerGame
        /\ tx' = (tx (-) SetToBag({t})) (+) SetToBag({t2})
        /\ UNCHANGED <<nextId, last, ghost>>

\* The statement rejects: db.tx rolls back and rejects, .catch(next) answers.
Reject(t) ==
    /\ \E e \in Errors :
        last' = Response(t.op, t.id, Null, Rejected(e), ThenOr404(Rejected(e)),
                         IF t.pc = "s1" THEN 1 ELSE 2, t.removed)
    /\ tx' = tx (-) SetToBag({t})
    /\ phantom' = (\/ phantom
                   \/ t.removed.pg \cap dirty.pg # {}
                   \/ t.removed.player \cap dirty.player # {})
    /\ UNCHANGED <<store, nextId, okDel, dirty>>

\* db.tx(t => t.none(...)...): BEGIN and the first statement.
Begin(op, id) ==
    /\ last = None
    /\ BagCardinality(tx) < MaxTx
    /\ \/ Resolve(NewTx(op, id), 1)
       \/ Reject(NewTx(op, id))

deletePlayer(id) == Begin("deletePlayer", id)

deleteGame(id) == Begin("deleteGame", id)

\* .then(() => t.oneOrNone(...)): the second statement.
Second(t) ==
    /\ last = None
    /\ t.pc = "s2"
    /\ \/ Resolve(t, 2)
       \/ Reject(t)

\* The callback's promise resolved: COMMIT, then .then(returnDataOr404).
Commit(t) ==
    LET p == Resolved(t.data)
        resp == ThenOr404(p)
    IN  /\ last = None
        /\ t.pc = "commit"
        /\ Player' = Player \ t.pend.player
        /\ Game' = Game \ t.pend.game
        /\ PlayerGame' = PlayerGame \ t.pend.pg
        /\ tx' = tx (-) SetToBag({t})
        /\ last' = Response(t.op, t.id, Null, p, resp, 0, Plus(t.removed, t.pend))
        /\ okDel' = IF resp.status = HttpOk
                    THEN [okDel EXCEPT ![t.op][t.id] = @ + 1] ELSE okDel
        /\ UNCHANGED <<nextId, dirty, phantom>>

\* The response is written and the request ends; the next callback runs.
Sent ==
    /\ last # None
    /\ last' = None
    /\ UNCHANGED <<store, nextId, tx, ghost>>

Next ==
    \/ readPlayers
    \/ \E id \in PlayerIds : readPlayer(id)
    \/ \E id \in PlayerIds, input \in Inputs : updatePlayer(id, input)
    \/ \E input \in Inputs : createPlayer(input)
    \/ readGames
    \/ \E gid \in GameIds : readGamePlayers(gid)
    \/ \E id \in PlayerIds : deletePlayer(id)
    \/ \E id \in GameIds : deleteGame(id)
    \/ \E t \in BagToSet(tx) : Second(t)
    \/ \E t \in BagToSet(tx) : Commit(t)
    \/ Sent

Spec == Init /\ [][Next]_vars

\* ---------------------------------------------------------------------
\* Properties
\* ---------------------------------------------------------------------
Deletes == {"deletePlayer", "deleteGame"}
GenericBody == [error |-> "An internal server error occurred"]
Ids(T) == {row.id : row \in T}
Present(op, id) == IF op = "deleteGame" THEN id \in Ids(Game) ELSE id \in Ids(Player)
Answered(op) == last.op = op /\ ~last.failed
\* The step in which a handler answers.
Answers == last = None /\ last' # None

NoOrphansIn(v) ==
    \A row \in v.pg : row.playerID \in Ids(v.player) /\ row.gameID \in Ids(v.game)

\* C1: in the committed store and in the view of every transaction in flight
\* (so also between its two statements), every PlayerGame row references a
\* Player row and a Game row that exist.
C1_NoOrphans ==
    /\ NoOrphansIn(Visible(Db))
    /\ \A t \in BagToSet(tx) : NoOrphansIn(Visible(t))

C1_Witness ==
    \E t \in BagToSet(tx) :
        t.op = "deletePlayer" /\ t.pc = "s2" /\ t.pend.pg # {} /\ PlayerGame # t.pend.pg

\* C2: a delete whose PlayerGame delete or parent delete rejects answers the
\* generic 500, leaves the three tables as they are and has removed no row
\* from them; and no delete that answers 200 or 404 has removed PlayerGame
\* rows without the parent row.
C2_Step ==
    /\ (Answers /\ last'.op \in Deletes /\ last'.failed) =>
            /\ store' = store
            /\ last'.status = HttpError
            /\ last'.body = GenericBody
            /\ last'.removed = NoRows
    /\ (Answers /\ last'.op \in Deletes /\ ~last'.failed) =>
            ~(last'.removed.pg # {} /\ last'.removed.player \cup last'.removed.game = {})
C2_Rollback == [][C2_Step]_vars

C2_Witness ==
    /\ last.op = "deletePlayer" /\ last.failed /\ last.at = 2
    /\ \E row \in PlayerGame : row.playerID = last.id
    /\ last.id \in Ids(Player)

\* C3: a delete of an id that has no row in the parent table answers 404 with
\* an empty body, and the three tables after it equal the tables before it.
C3_Step ==
    (Answers /\ last'.op \in Deletes /\ ~last'.failed /\ ~Present(last'.op, last'.id)) =>
        /\ last'.status = HttpNotFound
        /\ last'.body = Empty
        /\ store' = store
        /\ last'.removed = NoRows
C3_DeleteAbsent == [][C3_Step]_vars

C3_Witness ==
    /\ last.op = "deleteGame" /\ last.status = HttpNotFound
    /\ PlayerGame # {} /\ Cardinality(Game) = 1

\* C4: a DELETE /players/:id answered {id} removes exactly the Player row of
\* that id and the PlayerGame rows of that player; from then on a GET
\* /players/:id that completes answers 404 and no GET /games/:gid lists the
\* player.
C4_Step ==
    (Answers /\ last'.op = "deletePlayer" /\ last'.status = HttpOk) =>
        /\ last'.body = [id |-> last'.id]
        /\ last'.id \in Ids(Player)
        /\ Player' = {row \in Player : row.id # last'.id}
        /\ PlayerGame' = {row \in PlayerGame : row.playerID # last'.id}
        /\ Game' = Game
C4_Later ==
    \A id \in PlayerIds : okDel["deletePlayer"][id] > 0 =>
        /\ (Answered("readPlayer") /\ last.id = id) =>
                last.status = HttpNotFound /\ last.body = Empty
        /\ Answered("readGamePlayers") =>
                \A i \in 1..Len(last.body.rows) : last.body.rows[i].id # id
C4_DeletePlayer == []C4_Later /\ [][C4_Step]_vars

C4_Witness ==
    /\ Answered("readGamePlayers") /\ last.id = 2 /\ Len(last.body.rows) >= 1
    /\ okDel["deletePlayer"][2] = 1

\* C5: a DELETE /games/:id answered {id} removes exactly the Game row of that
\* id and the PlayerGame rows of that game; from then on a GET /games/:id
\* that completes answers an empty array and no GET /games lists the id.
C5_Step ==
    (Answers /\ last'.op = "deleteGame" /\ last'.status = HttpOk) =>
        /\ last'.body = [id |-> last'.id]
        /\ last'.id \in Ids(Game)
        /\ Game' = {row \in Game : row.id # last'.id}
        /\ PlayerGame' = {row \in PlayerGame : row.gameID # last'.id}
        /\ Player' = Player
C5_Later ==
    \A id \in GameIds : okDel["deleteGame"][id] > 0 =>
        /\ (Answered("readGamePlayers") /\ last.id = id) =>
                last.status = HttpOk /\ last.body.rows = <<>>
        /\ Answered("readGames") =>
                \A i \in 1..Len(last.body.rows) : last.body.rows[i].id # id
C5_DeleteGame == []C5_Later /\ [][C5_Step]_vars

C5_Witness ==
    /\ Answered("readGames") /\ Len(last.body.rows) = 1
    /\ okDel["deleteGame"][1] = 1 /\ PlayerGame # {}

\* C6: a PUT /players/:id that completes replaces the name and email of the
\* row of that id and nothing else, answers {id}, and a GET of the id then
\* returns the new name and email; with no such row it answers 404 and
\* changes nothing.
C6_Step ==
    (Answers /\ last'.op = "updatePlayer" /\ ~last'.failed) =>
        LET id == last'.id
            new == [id |-> id, name |-> last'.input.name, email |-> last'.input.email]
        IN  IF id \in Ids(Player)
            THEN /\ last'.status = HttpOk
                 /\ last'.body = [id |-> id]
                 /\ Player' = {row \in Player : row.id # id} \cup {new}
                 /\ Cardinality(Player') = Cardinality(Player)
                 /\ Game' = Game /\ PlayerGame' = PlayerGame
                 /\ returnDataOr404(SelectFrom(Player', id)) = [status |-> HttpOk, body |-> new]
            ELSE /\ last'.status = HttpNotFound
                 /\ last'.body = Empty
                 /\ store' = store
C6_UpdatePlayer == [][C6_Step]_vars

C6_Witness ==
    /\ last.op = "updatePlayer" /\ last.status = HttpOk /\ last.input.name = "B"
    /\ \E row \in Player : row.id # last.id /\ row.name = "A"
    /\ PlayerGame # {}

\* C7: a POST /players that completes inserts one Player row with the posted
\* name and email under an id no row present had, changes no other row,
\* answers that id, and a GET of the id then returns the posted name and
\* email.
C7_Step ==
    (Answers /\ last'.op = "createPlayer" /\ ~last'.failed) =>
        LET id == last'.body.id
            new == [id |-> id, name |-> last'.input.name, email |-> last'.input.email]
        IN  /\ last'.status = HttpOk
            /\ id \notin Ids(Player)
            /\ Player' = Player \cup {new}
            /\ Game' = Game /\ PlayerGame' = PlayerGame
            /\ returnDataOr404(SelectFrom(Player', id)) = [status |-> HttpOk, body |-> new]
C7_CreatePlayer == [][C7_Step]_vars

C7_Witness ==
    /\ last.op = "createPlayer" /\ last.status = HttpOk /\ last.input.name = "B"
    /\ Cardinality(Player) >= 2

\* C8: a GET /games/:id that completes answers 200 with one entry for each
\* PlayerGame row of that game, carrying the player's id, name and email and
\* the row's score, in ascending player id; an empty array when the game has
\* no participant or does not exist.
EntryOf(pg) ==
    LET p == CHOOSE row \in Player : row.id = pg.playerID
    IN  [id |-> pg.playerID, name |-> p.name, email |-> p.email, score |-> pg.score]
C8_GamePlayers ==
    Answered("readGamePlayers") =>
        LET rows == last.body.rows
            of == {pg \in PlayerGame : pg.gameID = last.id}
        IN  /\ last.status = HttpOk
            /\ Len(rows) = Cardinality(of)
            /\ {rows[i] : i \in 1..Len(rows)} = {EntryOf(pg) : pg \in of}
            /\ \A i, j \in 1..Len(rows) : i < j => rows[i].id <= rows[j].id
            /\ (of = {} \/ last.id \notin Ids(Game)) => rows = <<>>

C8_Witness ==
    /\ Answered("readGamePlayers") /\ Len(last.body.rows) >= 2
    /\ \E pg \in PlayerGame : pg.gameID # last.id

\* C9: whichever handler it is, a rejected statement is answered by the
\* generic 500 and nothing else, and a 404 is answered only by a by-id
\* handler whose statement completed and matched no row.
C9_Errors ==
    last # None =>
        /\ last.failed => last.status = HttpError /\ last.body = GenericBody
        /\ last.status = HttpNotFound =>
                /\ ~last.failed
                /\ last.op \in {"readPlayer", "updatePlayer", "deletePlayer", "deleteGame"}
                /\ IF last.op \in Deletes
                   THEN last.removed.player \cup last.removed.game = {}
                   ELSE ~Present(last.op, last.id)
                /\ last.body = Empty

C9_Witness == last.op = "readGamePlayers" /\ last.failed /\ PlayerGame # {}

\* C10: however the delete transactions interleave, each player and each game
\* that existed and is gone was answered {id} by exactly one delete, no id is
\* answered {id} twice, and no read has seen rows missing whose delete was
\* then rolled back.
C10_Concurrent ==
    /\ \A id \in PlayerIds :
        /\ okDel["deletePlayer"][id] <= 1
        /\ okDel["deletePlayer"][id] = 1 <=> (id < nextId /\ id \notin Ids(Player))
    /\ \A id \in GameIds :
        /\ okDel["deleteGame"][id] <= 1
        /\ okDel["deleteGame"][id] = 1 <=> id \notin Ids(Game)
    /\ (last.op \in Deletes /\ ~last.failed /\ last.status # HttpOk) =>
            last.status = HttpNotFound /\ last.removed = NoRows
    /\ ~phantom

C10_Witness ==
    \E t1, t2 \in BagToSet(tx) :
        /\ t1.op = t2.op /\ t1.id = t2.id
        /\ t1.pc = "commit" /\ t1.data # Null /\ t2.pc = "s2"

====
